---------------------------- MODULE Spec2Model ----------------------------
(***************************************************************************)
(* The explicit time-integration engine of fvhyper (src/fvhyper/src/       *)
(* explicit.cpp) as a state machine: one process per MPI rank, each        *)
(* running `run`, split into actions at the blocking MPI calls.            *)
(*                                                                         *)
(* Numbers are integers.  A per-cell field is a function on                *)
(* 0 .. vars*Ncells-1, indexed [vars*cell + k] as in the source.           *)
(***************************************************************************)
EXTENDS Integers, Sequences, FiniteSets, TLC

VARIABLES
    size,   \* pool.size, the number of ranks
    opt,    \* solverOptions, the solver:: flags and the user kernels' parameters
    rk,     \* rk[r]: the locals of `run` on rank r and its position in the code
    chan,   \* chan[r][c]: snd_q and rec_q of channel c of rank r's mesh
    net,    \* net[<<s, d>>]: the messages sent by s to d and not yet received, in order
    hist    \* history: what the claims compare the state with

vars_all == <<size, opt, rk, chan, net, hist>>

-----------------------------------------------------------------------------
(* Bounds of the model *)

MaxRanks == 3      \* ranks 1 .. MaxRanks
MaxDt == 2         \* calc_dt yields values 1 .. MaxDt
MaxQ == 1          \* the initial solution takes values 0 .. MaxQ (times QUnit)
MaxStep == 3       \* opt.max_step
RunRanks == 2      \* a whole run has 1 .. RunRanks ranks
EqSteps == 1       \* max_step of the runs compared with one rank
LimLevels == 3     \* the states given to calc_limiters take LimLevels values per cell
MaxFlux == 1       \* an arbitrary flux kernel returns -MaxFlux .. MaxFlux per edge

-----------------------------------------------------------------------------
(* Numbers *)

Min(a, b) == IF b < a THEN b ELSE a      \* std::min(a, b)
Max(a, b) == IF a < b THEN b ELSE a      \* std::max(a, b)

\* x/d and x*(1/d), rounded towards zero
Quot(x, d) == IF x >= 0 THEN x \div d ELSE -((-x) \div d)

\* sqrt(n), rounded down
Isqrt(n) == CHOOSE s \in 0 .. n : s * s <= n /\ (s + 1) * (s + 1) > n

-----------------------------------------------------------------------------
(* The mesh of rank r out of N: a chain of cells, two owned cells per rank. *)
(* Cells 0 and 1 are owned; the cell left of cell 0 and the cell right of   *)
(* cell 1 are halo cells (flagged ghost, index < nRealCells) where a        *)
(* neighbour rank exists, boundary ghosts (index >= nRealCells) otherwise.  *)

vars == 2            \* the number of conserved variables, bounded
Ncells == 4

FLen == vars * Ncells
FIdx == 0 .. FLen - 1
Cells == 0 .. Ncells - 1
Vars == 0 .. vars - 1

HasLeft(N, r) == r > 0
HasRight(N, r) == r < N - 1

nRealCells(N, r) ==
    2 + (IF HasLeft(N, r) THEN 1 ELSE 0) + (IF HasRight(N, r) THEN 1 ELSE 0)

LeftCell(N, r) == IF HasLeft(N, r) \/ ~HasRight(N, r) THEN 2 ELSE 3
RightCell(N, r) == IF HasLeft(N, r) \/ ~HasRight(N, r) THEN 3 ELSE 2

cellsIsGhost(N, r, c) == c >= 2 /\ c < nRealCells(N, r)

cellsAreas(c) == IF c = 1 THEN 2 ELSE 1

\* owned, non-ghost: the cells the engine integrates
IsOwned(N, r, c) == c < nRealCells(N, r) /\ ~cellsIsGhost(N, r, c)

\* edgesCells, edgesNormalsX/Y, edgesLengths; a boundary edge pairs owned cell i
\* with ghost cell j
EdgeSeq(N, r) ==
    << [i |-> 0, j |-> 1, nx |-> 1, ny |-> 0, le |-> 1],
       IF HasLeft(N, r)
         THEN [i |-> LeftCell(N, r), j |-> 0, nx |-> 0, ny |-> 1, le |-> 2]
         ELSE [i |-> 0, j |-> LeftCell(N, r), nx |-> -1, ny |-> 0, le |-> 1],
       IF HasRight(N, r)
         THEN [i |-> 1, j |-> RightCell(N, r), nx |-> 0, ny |-> 1, le |-> 2]
         ELSE [i |-> 1, j |-> RightCell(N, r), nx |-> 1, ny |-> 0, le |-> 1] >>

nEdges == 3
EdgeIds == 0 .. nEdges - 1
Edge(N, r, e) == EdgeSeq(N, r)[e + 1]

\* m.boundaryEdges: the edges bound to a boundary kernel
boundaryEdges(N, r) ==
    (IF HasLeft(N, r) THEN << >> ELSE <<1>>) \o
    (IF HasRight(N, r) THEN << >> ELSE <<2>>)

\* m.comms: one channel per neighbour rank
Comms(N, r) ==
    (IF HasLeft(N, r)
       THEN << [out_rank |-> r - 1, snd_indices |-> <<0>>,
                rec_indices |-> <<LeftCell(N, r)>>] >>
       ELSE << >>) \o
    (IF HasRight(N, r)
       THEN << [out_rank |-> r + 1, snd_indices |-> <<1>>,
                rec_indices |-> <<RightCell(N, r)>>] >>
       ELSE << >>)

Ranks == 0 .. size - 1

-----------------------------------------------------------------------------
(* Fields and messages *)

Zeros == [i \in FIdx |-> 0]

\* the entries of field f that belong to cell c
CellOf(i) == i \div vars

\* One message.  snap: the data as it was when the send was posted.  rdv: the
\* send was not complete when posted and the data is read from the sender's
\* buffer snd_q of channel ch when the receive takes it.
Msg(op, fld, snap, rdv, ch) ==
    [op |-> op, fld |-> fld, snap |-> snap, rdv |-> rdv, ch |-> ch]

\* what a receive of message m from rank s obtains
Delivered(s, m) == IF m.rdv THEN chan[s][m.ch].snd_q ELSE m.snap





-----------------------------------------------------------------------------
(* The state of one rank *)

VZeros == [k \in Vars |-> 0]

RankStart ==
    [pc |-> "start",
     q |-> Zeros, qk |-> Zeros, qt |-> Zeros, gx |-> Zeros, gy |-> Zeros,
     limiters |-> Zeros, qmin |-> Zeros, qmax |-> Zeros, dt |-> Zeros,
     R |-> VZeros, R0 |-> VZeros, step |-> 0, time |-> 0,
     stage |-> 0,       \* index of the Runge-Kutta stage, 1 .. Len(alpha)
     cf |-> "none",     \* update_comms: the field passed as q
     ck |-> 0,          \* update_comms: the channel of the receive loop
     gi |-> 0,          \* the root's loop index i over the other ranks
     dti |-> 0]         \* validate_dt: dti

ChanStart(N, r) ==
    [c \in DOMAIN Comms(N, r) |->
        [snd_q |-> [x \in 0 .. vars * Len(Comms(N, r)[c].snd_indices) - 1 |-> 0],
         rec_q |-> [x \in 0 .. vars * Len(Comms(N, r)[c].rec_indices) - 1 |-> 0]]]

HistStart(N, r) ==
    [ncall |-> 0,                                       \* update_comms calls started
     rsnap |-> [c \in DOMAIN Comms(N, r) |-> << >>],    \* snap of the message taken on channel c
     rcall |-> [c \in DOMAIN Comms(N, r) |-> 0],        \* the sender's call that posted it
     rfld  |-> [c \in DOMAIN Comms(N, r) |-> "none"],   \* the field the sender packed
     rop   |-> [c \in DOMAIN Comms(N, r) |-> "none"],   \* the operation that sent it
     nwrites |-> Zeros,                                 \* unpack writes per entry in this call
     dt_pre |-> Zeros,                                  \* dt as min_dt found it
     flux |-> [e \in EdgeIds |-> VZeros],               \* what calc_flux returned, per edge
     res |-> VZeros,                                    \* what calc_residuals returned last
     res_step |-> -1,                                   \* the step of that call
     q0 |-> Zeros,                                      \* q as generate_initial_solution left it
     self |-> << >>]                                    \* edges of the mesh with i = j

Send(nt, s, d, m) == [nt EXCEPT ![<<s, d>>] = Append(@, m)]

-----------------------------------------------------------------------------
(* update_comms, lines 257-312 *)

\* lines 266-272: the values of the channel's send cells, in order
Pack(f, comm) ==
    [x \in 0 .. vars * Len(comm.snd_indices) - 1 |->
        f[vars * comm.snd_indices[(x \div vars) + 1] + (x % vars)]]

\* lines 299-305: f with the buffer's values written to the channel's receive cells
Unpack(f, comm, buf) ==
    [i \in DOMAIN f |->
        IF \E it \in DOMAIN comm.rec_indices : comm.rec_indices[it] = CellOf(i)
          THEN LET it == CHOOSE it \in DOMAIN comm.rec_indices :
                             comm.rec_indices[it] = CellOf(i)
               IN buf[vars * (it - 1) + (i % vars)]
          ELSE f[i]]

RECURSIVE SendAll(_, _, _, _, _, _)
\* lines 264-285: one MPI_Isend per channel, channels c .. last
SendAll(nt, r, c, f, fld, rdv) ==
    IF c > Len(Comms(size, r)) THEN nt
    ELSE SendAll(Send(nt, r, Comms(size, r)[c].out_rank,
                      Msg("halo", fld, Pack(f, Comms(size, r)[c]), rdv[c], c)
                         @@ [call |-> hist[r].ncall + 1]),
                 r, c + 1, f, fld, rdv)

\* Whether an MPI_Isend may stay incomplete after it is posted (TRUE) or is
\* complete at once, its data copied (FALSE).  An MPI build that sends small
\* messages eagerly always completes at once.
SendModes == IF opt.mpi = "eager" THEN {FALSE} ELSE BOOLEAN

\* where update_comms(fld) returns to
AfterComm(r) ==
    CASE rk[r].cf = "dt" -> IF opt.global_dt THEN "min_dt" ELSE "save"
      [] rk[r].cf = "gx" -> "comm_send"
      [] rk[r].cf = "gy" -> "calc_limiters"
      [] rk[r].cf = "limiters" -> "calc_qt"
      [] OTHER -> "stage_end"

\* lines 262-285: pack every channel and post its non-blocking send
CommSend(r) ==
    /\ rk[r].pc = "comm_send"
    /\ LET f == rk[r][rk[r].cf]
           cs == Comms(size, r)
       IN /\ \E rdv \in [DOMAIN cs -> SendModes] :
                net' = SendAll(net, r, 1, f, rk[r].cf, rdv)
          /\ chan' = [chan EXCEPT ![r] =
                        [c \in DOMAIN cs |-> [@[c] EXCEPT !.snd_q = Pack(f, cs[c])]]]
          /\ rk' = [rk EXCEPT ![r].pc = "comm_recv", ![r].ck = 1]
          /\ hist' = [hist EXCEPT ![r].ncall = @ + 1, ![r].nwrites = Zeros]
    /\ UNCHANGED <<size, opt>>

\* lines 288-306: the blocking receive of channel ck, then its unpack
CommRecv(r) ==
    /\ rk[r].pc = "comm_recv"
    /\ LET c == rk[r].ck
           comm == Comms(size, r)[c]
           src == comm.out_rank
       IN /\ net[<<src, r>>] # << >>
          /\ LET m == Head(net[<<src, r>>])
                 got == Delivered(src, m)
                 buf == [x \in DOMAIN chan[r][c].rec_q |->
                            IF x \in DOMAIN got THEN got[x] ELSE chan[r][c].rec_q[x]]
             IN /\ net' = [net EXCEPT ![<<src, r>>] = Tail(@)]
                /\ chan' = [chan EXCEPT ![r][c].rec_q = buf]
                /\ rk' = [rk EXCEPT
                            ![r][rk[r].cf] = Unpack(@, comm, buf),
                            ![r].ck = c + 1,
                            ![r].pc = IF c = Len(Comms(size, r))
                                        THEN "comm_free" ELSE "comm_recv"]
                /\ hist' = [hist EXCEPT
                              ![r].rsnap[c] = m.snap,
                              ![r].rcall[c] = m.call,
                              ![r].rfld[c] = m.fld,
                              ![r].rop[c] = m.op,
                              ![r].nwrites = [i \in FIdx |->
                                  IF \E it \in DOMAIN comm.rec_indices :
                                        comm.rec_indices[it] = CellOf(i)
                                    THEN @[i] + 1 ELSE @[i]]]
    /\ UNCHANGED <<size, opt>>

\* lines 308-311: MPI_Request_free of every request, and the return
CommFree(r) ==
    /\ rk[r].pc = "comm_free"
    /\ rk' = [rk EXCEPT
                ![r].pc = AfterComm(r),
                ![r].cf = IF rk[r].cf = "gx" THEN "gy" ELSE @]
    /\ UNCHANGED <<size, opt, chan, net, hist>>

-----------------------------------------------------------------------------
(* min_dt, lines 390-399, and validate_dt, lines 402-456 *)

RECURSIVE FieldMin(_, _, _)
\* lines 392-395: the loop over i < dt.size(), from i on, with min_dt = acc
FieldMin(f, i, acc) ==
    IF i >= FLen THEN acc ELSE FieldMin(f, i + 1, Min(acc, f[i]))

min_dt(dt) == [i \in FIdx |-> FieldMin(dt, 0, dt[0])]

MinDt(r) ==
    /\ rk[r].pc = "min_dt"
    /\ rk' = [rk EXCEPT ![r].dt = min_dt(@),
                        ![r].gi = 1,
                        ![r].pc = IF size > 1 THEN "validate_dt" ELSE "save"]
    /\ hist' = [hist EXCEPT ![r].dt_pre = rk[r].dt]
    /\ UNCHANGED <<size, opt, chan, net>>

\* line 426, after the receive loop
RootDt(dt0, dti) == Min(dt0, dti)

\* lines 404-412: a rank other than 0 sends dt[0] to rank 0
VdtSend(r) ==
    /\ rk[r].pc = "validate_dt" /\ r # 0
    /\ net' = Send(net, r, 0,
                   Msg("dt_up", "dt", [x \in {0} |-> rk[r].dt[0]], FALSE, 0)
                      @@ [call |-> 0])
    /\ rk' = [rk EXCEPT ![r].pc = "vdt_recv"]
    /\ UNCHANGED <<size, opt, chan, hist>>

\* lines 414-427: rank 0 receives dti from rank gi; after the last, line 426
VdtGather(r) ==
    /\ rk[r].pc = "validate_dt" /\ r = 0
    /\ LET i == rk[r].gi IN
       /\ net[<<i, 0>>] # << >>
       /\ LET dti == Delivered(i, Head(net[<<i, 0>>]))[0] IN
          /\ net' = [net EXCEPT ![<<i, 0>>] = Tail(@)]
          /\ rk' = [rk EXCEPT
                      ![r].dti = dti,
                      ![r].gi = i + 1,
                      ![r].dt[0] = IF i = size - 1 THEN RootDt(@, dti) ELSE @,
                      ![r].pc = IF i = size - 1 THEN "vdt_bcast" ELSE "validate_dt"]
    /\ UNCHANGED <<size, opt, chan, hist>>

RECURSIVE Bcast(_, _, _)
\* a loop of MPI_Send from rank 0 to ranks i .. size-1
Bcast(nt, i, m) ==
    IF i >= size THEN nt ELSE Bcast(Send(nt, 0, i, m), i + 1, m)

\* lines 429-439: rank 0 sends dt[0] to every other rank
VdtBcast(r) ==
    /\ rk[r].pc = "vdt_bcast" /\ r = 0
    /\ net' = Bcast(net, 1,
                    Msg("dt_down", "dt", [x \in {0} |-> rk[r].dt[0]], FALSE, 0)
                       @@ [call |-> 0])
    /\ rk' = [rk EXCEPT ![r].pc = "save"]
    /\ UNCHANGED <<size, opt, chan, hist>>

\* lines 441-455: the other ranks receive dt[0] and copy it to every dt[i], i >= 1
VdtRecv(r) ==
    /\ rk[r].pc = "vdt_recv" /\ r # 0
    /\ net[<<0, r>>] # << >>
    /\ LET d0 == Delivered(0, Head(net[<<0, r>>]))[0] IN
       /\ net' = [net EXCEPT ![<<0, r>>] = Tail(@)]
       /\ rk' = [rk EXCEPT ![r].dt = [i \in FIdx |-> d0], ![r].pc = "save"]
    /\ UNCHANGED <<size, opt, chan, hist>>

-----------------------------------------------------------------------------
(* The options and flags *)

\* the default tolerance, 1e-16: the smallest positive number of the model
TolDefault == 1

OptStart ==
    [global_dt |-> TRUE, do_calc_gradients |-> FALSE, do_calc_limiters |-> FALSE,
     max_step |-> MaxStep, max_time |-> MaxStep * MaxDt + 1,
     tolerance |-> TolDefault, print_interval |-> 1,
     flux |-> "diffusive",      \* the user's calc_flux
     limiter |-> "zero",        \* the user's limiter_func
     mpi |-> "any",             \* the MPI build: "any", or "eager"
     dt1 |-> 1, dt2 |-> 1,      \* the user's calc_dt
     dt_rule |-> "area"]

-----------------------------------------------------------------------------
(* The global dt reduction alone: run, lines 553-556, from any dt fields *)

\* dt fields with one value at entry 0 and one at the other entries
DtField(a, b) == [i \in FIdx |-> IF i = 0 THEN a ELSE b]

InitDt ==
    \E N \in 2 .. MaxRanks :
      \E a \in [0 .. N - 1 -> 1 .. MaxDt], b \in [0 .. N - 1 -> 1 .. MaxDt] :
        /\ size = N
        /\ opt = OptStart
        /\ rk = [r \in 0 .. N - 1 |->
                   [RankStart EXCEPT !.pc = "min_dt", !.dt = DtField(a[r], b[r])]]
        /\ chan = [r \in 0 .. N - 1 |-> ChanStart(N, r)]
        /\ net = [p \in {x \in (0 .. N - 1) \X (0 .. N - 1) : x[1] # x[2]} |-> << >>]
        /\ hist = [r \in 0 .. N - 1 |-> HistStart(N, r)]

NextDt ==
    \/ \E r \in Ranks : MinDt(r)
    \/ \E r \in Ranks : VdtSend(r)
    \/ \E r \in Ranks : VdtGather(r)
    \/ \E r \in Ranks : VdtBcast(r)
    \/ \E r \in Ranks : VdtRecv(r)

SpecDt == InitDt /\ [][NextDt]_vars_all

-----------------------------------------------------------------------------
(* Claims on the global dt reduction *)

DtReduced == \A r \in Ranks : rk[r].pc = "save"

\* C1: with global_dt on and 2 or more ranks, after min_dt and validate_dt every
\* entry dt[i] of every rank holds one and the same scalar.
C1_GlobalDtAgreement ==
    DtReduced => \A r \in Ranks, s \in Ranks : \A i \in FIdx, j \in FIdx :
                    rk[r].dt[i] = rk[s].dt[j]

\* C2: the scalar validate_dt distributes is at most every dt value every rank
\* held before the reduction.
C2_GlobalDtMinimal ==
    DtReduced => \A r \in Ranks \ {0} : \A s \in Ranks : \A i \in FIdx :
                    rk[r].dt[0] <= hist[s].dt_pre[i]

-----------------------------------------------------------------------------
(* The user's initial solution: generate_initial_solution(q, m) sets every   *)
(* cell, ghosts included, from its centre.  As in the shock tube, a left     *)
(* state for the cells left of a split and a right state (zero) elsewhere.   *)

QUnit == 40

\* position of cell c of rank r along the chain
CellPos(N, r, c) ==
    CASE c = 0 -> 2 * r
      [] c = 1 -> 2 * r + 1
      [] c = LeftCell(N, r) -> 2 * r - 1
      [] OTHER -> 2 * r + 2

InitKernels(N) == [split : {1, N}, left : [Vars -> 0 .. MaxQ]]

generate_initial_solution(N, r, ik) ==
    [x \in FIdx |->
        IF CellPos(N, r, CellOf(x)) < ik.split THEN QUnit * ik.left[x % vars] ELSE 0]

-----------------------------------------------------------------------------
(* calc_gradients, lines 21-70 *)

RECURSIVE GradEdgesOn(_, _, _, _)
\* lines 34-54: the edge loop over the edges ES from edge e on;
\* g = [x |-> gx, y |-> gy]
GradEdgesOn(ES, q, e, g) ==
    IF e >= Len(ES) THEN g
    ELSE LET ed == ES[e + 1]
             f(k) == Quot((q[vars * ed.i + k] + q[vars * ed.j + k]) * ed.le, 2)
             add(h, n) ==
                 [x \in FIdx |->
                     LET k == x % vars
                         atI == IF CellOf(x) = ed.i THEN h[x] + f(k) * n ELSE h[x]
                     IN IF CellOf(x) = ed.j THEN atI - f(k) * n ELSE atI]
         IN GradEdgesOn(ES, q, e + 1,
                        IF ed.i # ed.j
                          THEN [x |-> add(g.x, ed.nx), y |-> add(g.y, ed.ny)]
                          ELSE g)

\* the edge loop on the mesh of rank r
GradEdges(N, r, q, e, g) == GradEdgesOn(EdgeSeq(N, r), q, e, g)

\* the loop of lines 64-69 left out: no cell is set to zero
GradFinishNoZero(N, r, h) ==
    [x \in FIdx |->
        IF CellOf(x) < nRealCells(N, r)
          THEN Quot(h[x], cellsAreas(CellOf(x)))
          ELSE h[x]]

\* lines 56-69: normalise the cells below nRealCells, zero the others
GradFinish(N, r, h) ==
    [x \in FIdx |->
        IF CellOf(x) < nRealCells(N, r)
          THEN Quot(h[x], cellsAreas(CellOf(x)))
          ELSE 0]

calc_gradients(N, r, q) ==
    LET g == GradEdges(N, r, q, 0, [x |-> Zeros, y |-> Zeros])
    IN [x |-> GradFinish(N, r, g.x), y |-> GradFinish(N, r, g.y)]

\* calc_gradients on a mesh that has the edges SE, whose two cells are equal,
\* after the edges of rank r
calc_gradients_on(SE, N, r, q) ==
    LET g == GradEdgesOn(EdgeSeq(N, r) \o SE, q, 0, [x |-> Zeros, y |-> Zeros])
    IN [x |-> GradFinish(N, r, g.x), y |-> GradFinish(N, r, g.y)]

\* the test of line 472 left out: the gradients are computed whatever the flag
CalcGradientsAlways(r) ==
    /\ rk[r].pc = "calc_gradients"
    /\ LET g == calc_gradients(size, r, rk[r].qk)
       IN rk' = [rk EXCEPT ![r].gx = g.x, ![r].gy = g.y, ![r].pc = "calc_limiters"]
    /\ UNCHANGED <<size, opt, chan, net, hist>>

\* complete_calc_qt, lines 472-478
CalcGradients(r) ==
    /\ rk[r].pc = "calc_gradients"
    /\ IF opt.do_calc_gradients
         THEN LET g == calc_gradients_on(hist[r].self, size, r, rk[r].qk)
              IN rk' = [rk EXCEPT ![r].gx = g.x, ![r].gy = g.y,
                                  ![r].cf = IF size > 1 THEN "gx" ELSE @,
                                  ![r].pc = IF size > 1 THEN "comm_send"
                                                        ELSE "calc_limiters"]
         ELSE rk' = [rk EXCEPT ![r].pc = "calc_limiters"]
    /\ UNCHANGED <<size, opt, chan, net, hist>>

-----------------------------------------------------------------------------
(* Two consecutive halo exchanges: complete_calc_qt, lines 472-478, with      *)
(* gradients on and 2 or more ranks                                          *)

NoNet(N) == [p \in {x \in (0 .. N - 1) \X (0 .. N - 1) : x[1] # x[2]} |-> << >>]

InitComms ==
    \E N \in 2 .. MaxRanks : \E ik \in InitKernels(N) :
        /\ size = N
        /\ opt = [OptStart EXCEPT !.do_calc_gradients = TRUE]
        /\ rk = [r \in 0 .. N - 1 |->
                   [RankStart EXCEPT !.pc = "calc_gradients", !.stage = 1,
                                     !.q = generate_initial_solution(N, r, ik),
                                     !.qk = generate_initial_solution(N, r, ik)]]
        /\ chan = [r \in 0 .. N - 1 |-> ChanStart(N, r)]
        /\ net = NoNet(N)
        /\ hist = [r \in 0 .. N - 1 |-> HistStart(N, r)]

NextComms ==
    \/ \E r \in Ranks : CalcGradients(r)
    \/ \E r \in Ranks : CommSend(r)
    \/ \E r \in Ranks : CommRecv(r)
    \/ \E r \in Ranks : CommFree(r)

SpecComms == InitComms /\ [][NextComms]_vars_all

-----------------------------------------------------------------------------
(* Claims on the halo exchange *)

\* C3: when update_comms(f) returns on a rank, every ghost entry f[V*recv+k] of
\* every channel equals the peer's value of the paired send cell as it was when
\* the peer posted the send of the same update_comms call, and was written once.
C3_HaloConsistency ==
    \A r \in Ranks :
        rk[r].pc = "comm_free" =>
            \A c \in DOMAIN Comms(size, r) :
                LET comm == Comms(size, r)[c] IN
                \A it \in DOMAIN comm.rec_indices : \A k \in Vars :
                    /\ hist[r].rcall[c] = hist[r].ncall
                    /\ hist[r].rfld[c] = rk[r].cf
                    /\ rk[r][rk[r].cf][vars * comm.rec_indices[it] + k]
                          = hist[r].rsnap[c][vars * (it - 1) + k]
                    /\ hist[r].nwrites[vars * comm.rec_indices[it] + k] = 1

InUpdateComms(r) == rk[r].pc \in {"comm_recv", "comm_free"}

\* C4: every non-blocking send an update_comms call posted is complete when the
\* call returns: no send of rank s is incomplete unless s is inside the call
\* that posted it.
C4_SendsCompleteOnReturn ==
    \A p \in DOMAIN net : \A x \in DOMAIN net[p] :
        LET m == net[p][x] IN
        (m.op = "halo" /\ m.rdv) =>
            (InUpdateComms(p[1]) /\ m.call = hist[p[1]].ncall)

-----------------------------------------------------------------------------
(* calc_time_derivatives, lines 158-222 *)

\* The user's calc_flux, called at lines 193-199: what it returns for every edge.
\* "any": any value per edge (scaled per variable); "diffusive": a kernel that
\* depends on the two states, f[k] = (qi[k] - qj[k])/2; "closed": the same
\* between two cells of the domain, and no flux through a boundary edge.
FluxTables(N, r, q) ==
    IF opt.flux = "any"
      THEN {[e \in EdgeIds |-> [k \in Vars |-> t[e] * (k + 1) * QUnit]] :
               t \in [EdgeIds -> (-MaxFlux) .. MaxFlux]}
      ELSE {[e \in EdgeIds |->
               [k \in Vars |->
                  IF opt.flux = "closed" /\ Edge(N, r, e).j >= nRealCells(N, r)
                    THEN 0
                    ELSE Quot(q[vars * Edge(N, r, e).i + k]
                                - q[vars * Edge(N, r, e).j + k], 2)]]}

RECURSIVE QtEdges(_, _, _, _, _)
\* lines 171-204: the edge loop from edge e on, f the fluxes
QtEdges(N, r, f, e, qt) ==
    IF e >= nEdges THEN qt
    ELSE LET ed == Edge(N, r, e)
             step1 == [x \in FIdx |->
                          IF CellOf(x) = ed.i THEN qt[x] - f[e][x % vars] * ed.le
                                              ELSE qt[x]]
             step2 == [x \in FIdx |->
                          IF CellOf(x) = ed.j THEN step1[x] + f[e][x % vars] * ed.le
                                              ELSE step1[x]]
         IN QtEdges(N, r, f, e + 1, step2)

\* lines 211-214 left out: a flagged cell is scaled like an owned one
QtNoGhostZero(N, r, x, v) ==
    IF CellOf(x) >= nRealCells(N, r) THEN 0 ELSE Quot(v, cellsAreas(CellOf(x)))

\* lines 207-210 left out: a cell past nRealCells is scaled like an owned one
QtNoRealZero(N, r, x, v) ==
    IF cellsIsGhost(N, r, CellOf(x)) THEN 0 ELSE Quot(v, cellsAreas(CellOf(x)))

\* lines 206-221, one entry: zero for a cell that is not real or is a ghost,
\* the accumulated sum times 1/area otherwise
QtFinish(N, r, x, v) ==
    IF CellOf(x) >= nRealCells(N, r) THEN 0
    ELSE IF cellsIsGhost(N, r, CellOf(x)) THEN 0
    ELSE Quot(v, cellsAreas(CellOf(x)))

calc_time_derivatives(N, r, f) ==
    LET acc == QtEdges(N, r, f, 0, Zeros)
    IN [x \in FIdx |-> QtFinish(N, r, x, acc[x])]

\* complete_calc_qt, line 487
CalcQt(r) ==
    /\ rk[r].pc = "calc_qt"
    /\ \E f \in FluxTables(size, r, rk[r].qk) :
          /\ rk' = [rk EXCEPT ![r].qt = calc_time_derivatives(size, r, f),
                              ![r].pc = "update_cells"]
          /\ hist' = [hist EXCEPT ![r].flux = f]
    /\ UNCHANGED <<size, opt, chan, net>>

-----------------------------------------------------------------------------
(* The flux assembly alone, on one rank, for any flux kernel output *)

InitQt ==
    \E N \in 1 .. MaxRanks : \E ik \in InitKernels(N), a \in 0 .. N - 1 :
      \E dg \in BOOLEAN, dl \in BOOLEAN :
        /\ size = N
        /\ opt = [OptStart EXCEPT !.flux = "any", !.do_calc_gradients = dg,
                                  !.do_calc_limiters = dl]
        /\ rk = [r \in 0 .. N - 1 |->
                   [RankStart EXCEPT !.pc = IF r = a THEN "calc_qt" ELSE "idle",
                                     !.stage = 1,
                                     !.q = generate_initial_solution(N, r, ik),
                                     !.qk = generate_initial_solution(N, r, ik)]]
        /\ chan = [r \in 0 .. N - 1 |-> ChanStart(N, r)]
        /\ net = NoNet(N)
        /\ hist = [r \in 0 .. N - 1 |-> HistStart(N, r)]

NextQt == \E r \in Ranks : CalcQt(r)

SpecQt == InitQt /\ [][NextQt]_vars_all

\* the sum of f*L over the edges that enter cell c minus those that leave it
FluxSum(N, r, f, c, k) ==
    LET inE == {e \in EdgeIds : Edge(N, r, e).j = c}
        outE == {e \in EdgeIds : Edge(N, r, e).i = c}
        RECURSIVE Sum(_)
        Sum(S) == IF S = {} THEN 0
                  ELSE LET e == CHOOSE e \in S : TRUE
                       IN f[e][k] * Edge(N, r, e).le + Sum(S \ {e})
    IN Sum(inE) - Sum(outE)

\* C7: after complete_calc_qt, qt[V*c+k] = 0 for every cell c >= nRealCells or
\* flagged is_ghost, and every other cell holds its edge flux sum over its area.
C7_GhostContribution ==
    \A r \in Ranks :
        rk[r].pc = "update_cells" =>
            \A c \in Cells, k \in Vars :
                rk[r].qt[vars * c + k] =
                    IF c >= nRealCells(size, r) \/ cellsIsGhost(size, r, c)
                      THEN 0
                      ELSE Quot(FluxSum(size, r, hist[r].flux, c, k), cellsAreas(c))

\* a flagged ghost cell below nRealCells has a non-zero flux sum, and an owned
\* cell a non-zero qt
C7_Witness ==
    \E r \in Ranks :
        /\ rk[r].pc = "update_cells"
        /\ \E c \in Cells :
              /\ c < nRealCells(size, r) /\ cellsIsGhost(size, r, c)
              /\ FluxSum(size, r, hist[r].flux, c, 0) # 0
        /\ \E c \in Cells : IsOwned(size, r, c) /\ rk[r].qt[vars * c] # 0

-----------------------------------------------------------------------------
(* calc_limiters, lines 73-155.  Reals are in units of 1/QUnit. *)

\* the row of the chain a cell lies in: the rank that owns it
CellRow(N, r, c) ==
    IF c < 2 \/ c >= nRealCells(N, r) THEN r
    ELSE IF c = LeftCell(N, r) /\ HasLeft(N, r) THEN r - 1 ELSE r + 1

cellsCentersX(N, r, c) == 2 * CellPos(N, r, c)
cellsCentersY(N, r, c) == 2 * CellRow(N, r, c)
edgesCentersX(N, r, e) ==
    (cellsCentersX(N, r, Edge(N, r, e).i) + cellsCentersX(N, r, Edge(N, r, e).j)) \div 2
edgesCentersY(N, r, e) ==
    (cellsCentersY(N, r, Edge(N, r, e).i) + cellsCentersY(N, r, Edge(N, r, e).j)) \div 2

\* the user's limiter_func: 0 (shock tube), or Michalak's with yt = 2, where
\* a = 0 and b = -1/4 (forward step)
limiter_func(y) ==
    IF opt.limiter = "zero" THEN 0
    ELSE IF y >= 2 * QUnit THEN QUnit
    ELSE y - Quot(y * y, 4 * QUnit)

RECURSIVE MinMaxEdges(_, _, _, _, _)
\* lines 92-103: the edge loop from edge e on; mm = [lo |-> qmin, hi |-> qmax]
MinMaxEdges(N, r, q, e, mm) ==
    IF e >= nEdges THEN mm
    ELSE LET ed == Edge(N, r, e)
             other(x) == IF CellOf(x) = ed.i THEN vars * ed.j + (x % vars)
                                             ELSE vars * ed.i + (x % vars)
             touch(x) == CellOf(x) = ed.i \/ CellOf(x) = ed.j
         IN MinMaxEdges(N, r, q, e + 1,
              [lo |-> [x \in FIdx |-> IF touch(x) THEN Min(mm.lo[x], q[other(x)])
                                                  ELSE mm.lo[x]],
               hi |-> [x \in FIdx |-> IF touch(x) THEN Max(mm.hi[x], q[other(x)])
                                                  ELSE mm.hi[x]]])

\* the constant term of line 133 left out
SigmaNoOne(area, delta_max, delta_min) ==
    LET Ka == Isqrt(area * QUnit * QUnit)
        K3a == Quot(Ka * Ka * Ka, QUnit * QUnit)
        dMaxMin2 == Quot((delta_max - delta_min) * (delta_max - delta_min), QUnit)
        y == Quot(dMaxMin2 * QUnit, K3a) - QUnit
    IN IF dMaxMin2 <= K3a THEN QUnit
       ELSE IF dMaxMin2 < 2 * K3a
         THEN Quot(2 * y * y * y, QUnit * QUnit) - Quot(3 * y * y, QUnit)
         ELSE 0

\* lines 125-137: the blend weight sigma
Sigma(area, delta_max, delta_min) ==
    LET Ka == Isqrt(area * QUnit * QUnit)
        K3a == Quot(Ka * Ka * Ka, QUnit * QUnit)
        dMaxMin2 == Quot((delta_max - delta_min) * (delta_max - delta_min), QUnit)
        y == Quot(dMaxMin2 * QUnit, K3a) - QUnit
    IN IF dMaxMin2 <= K3a THEN QUnit
       ELSE IF dMaxMin2 < 2 * K3a
         THEN Quot(2 * y * y * y, QUnit * QUnit) - Quot(3 * y * y, QUnit) + QUnit
         ELSE 0

\* lines 115-148: the limiter value of variable k that edge e gives cell id
EdgeLimiter(N, r, q, gx, gy, mm, e, id, k) ==
    LET dx == edgesCentersX(N, r, e) - cellsCentersX(N, r, id)
        dy == edgesCentersY(N, r, e) - cellsCentersY(N, r, id)
        dqg == gx[vars * id + k] * dx + gy[vars * id + k] * dy
        delta_max == mm.hi[vars * id + k] - q[vars * id + k]
        delta_min == mm.lo[vars * id + k] - q[vars * id + k]
        sig == Sigma(cellsAreas(id), delta_max, delta_min)
        lim == IF dqg > 0 THEN limiter_func(Quot(delta_max * QUnit, dqg))
               ELSE IF dqg < 0 THEN limiter_func(Quot(delta_min * QUnit, dqg))
               ELSE QUnit
    IN sig + Quot((QUnit - sig) * lim, QUnit)

RECURSIVE LimEdges(_, _, _, _, _, _, _, _)
\* lines 107-154: the edge loop from edge e on
LimEdges(N, r, q, gx, gy, mm, e, lims) ==
    IF e >= nEdges THEN lims
    ELSE LET ed == Edge(N, r, e)
             at(l, id) ==
                 [x \in FIdx |->
                     IF CellOf(x) = id /\ IsOwned(N, r, id)
                       THEN Min(l[x], EdgeLimiter(N, r, q, gx, gy, mm, e, id, x % vars))
                       ELSE l[x]]
         IN LimEdges(N, r, q, gx, gy, mm, e + 1, at(at(lims, ed.i), ed.j))

calc_limiters(N, r, q, gx, gy) ==
    LET mm == MinMaxEdges(N, r, q, 0, [lo |-> q, hi |-> q])
    IN [limiters |-> LimEdges(N, r, q, gx, gy, mm, 0, [x \in FIdx |-> QUnit]),
        qmin |-> mm.lo, qmax |-> mm.hi]

\* complete_calc_qt, lines 480-484
CalcLimiters(r) ==
    /\ rk[r].pc = "calc_limiters"
    /\ IF opt.do_calc_limiters
         THEN LET l == calc_limiters(size, r, rk[r].qk, rk[r].gx, rk[r].gy)
              IN rk' = [rk EXCEPT ![r].limiters = l.limiters,
                                  ![r].qmin = l.qmin, ![r].qmax = l.qmax,
                                  ![r].cf = IF size > 1 THEN "limiters" ELSE @,
                                  ![r].pc = IF size > 1 THEN "comm_send" ELSE "calc_qt"]
         ELSE rk' = [rk EXCEPT ![r].pc = "calc_qt"]
    /\ UNCHANGED <<size, opt, chan, net, hist>>

-----------------------------------------------------------------------------
(* update_cells, update_bounds, the user's calc_dt, and the stage loop of run *)

\* the RK5 stage coefficients 0.05, 0.125, 0.25, 0.5, 1., line 513, as alpha/AlphaDen
AlphaDen == 40
alpha == <<2, 5, 10, 20, 40>>

\* lines 226-236: q[i] = ql[i] + qt[i] * dt[i] * v, for every i < q.size()
update_cells(ql, qt, dt, v) ==
    [i \in FIdx |-> ql[i] + Quot(qt[i] * dt[i] * v, AlphaDen)]

\* the boundary kernel: zero_flux, b[k] = q[k]
boundaryFunc(q, owned, k) == q[vars * owned + k]

RECURSIVE BoundsFrom(_, _, _, _)
\* lines 243-253: the loop over m.boundaryEdges from index i on
BoundsFrom(N, r, i, q) ==
    IF i > Len(boundaryEdges(N, r)) THEN q
    ELSE LET ed == Edge(N, r, boundaryEdges(N, r)[i])
         IN BoundsFrom(N, r, i + 1,
              [x \in FIdx |-> IF CellOf(x) = ed.j THEN boundaryFunc(q, ed.i, x % vars)
                                                  ELSE q[x]])

\* the boundary applicator left out
update_bounds_skipped(N, r, q) == q

update_bounds(N, r, q) == BoundsFrom(N, r, 1, q)

\* the user's rule for the time step of a cell: by its area, or by its place
\* in the chain of N ranks (the last owned cell and what lies right of it)
DtRule(N, pos, area) ==
    IF opt.dt_rule = "area" THEN (IF area = 1 THEN opt.dt1 ELSE opt.dt2)
    ELSE (IF pos >= 2 * N - 1 THEN opt.dt2 ELSE opt.dt1)

\* the user's calc_dt on the mesh of rank r, cell c
calc_dt(N, r, c) == DtRule(N, CellPos(N, r, c), cellsAreas(c))

\* run, lines 547-548
UpdateBounds(r) ==
    /\ rk[r].pc = "update_bounds"
    /\ rk' = [rk EXCEPT ![r].q = update_bounds(size, r, @), ![r].pc = "calc_dt"]
    /\ UNCHANGED <<size, opt, chan, net, hist>>

\* line 552 with the test pool.rank > 0 in place of pool.size > 1: rank 0 leaves
\* out update_comms(dt)
CalcDtRootNoComms(r) ==
    /\ rk[r].pc = "calc_dt"
    /\ rk' = [rk EXCEPT
                ![r].dt = [x \in FIdx |-> calc_dt(size, r, CellOf(x))],
                ![r].cf = IF r > 0 THEN "dt" ELSE @,
                ![r].pc = IF r > 0 THEN "comm_send"
                          ELSE IF opt.global_dt THEN "min_dt" ELSE "save"]
    /\ UNCHANGED <<size, opt, chan, net, hist>>

\* run, lines 550-553
CalcDt(r) ==
    /\ rk[r].pc = "calc_dt"
    /\ rk' = [rk EXCEPT
                ![r].dt = [x \in FIdx |-> calc_dt(size, r, CellOf(x))],
                ![r].cf = IF size > 1 THEN "dt" ELSE @,
                ![r].pc = IF size > 1 THEN "comm_send"
                          ELSE IF opt.global_dt THEN "min_dt" ELSE "save"]
    /\ UNCHANGED <<size, opt, chan, net, hist>>

\* run, lines 560-561: qk = q, and the first stage begins
Save(r) ==
    /\ rk[r].pc = "save"
    /\ rk' = [rk EXCEPT ![r].qk = rk[r].q, ![r].stage = 1, ![r].pc = "calc_gradients"]
    /\ UNCHANGED <<size, opt, chan, net, hist>>

\* update_cells given the stage state in place of q as ql
UpdateCellsFromStage(r) ==
    /\ rk[r].pc = "update_cells"
    /\ rk' = [rk EXCEPT
                ![r].qk = update_cells(rk[r].qk, rk[r].qt, rk[r].dt, alpha[rk[r].stage]),
                ![r].cf = IF size > 1 THEN "qk" ELSE @,
                ![r].pc = IF size > 1 THEN "comm_send" ELSE "stage_end"]
    /\ UNCHANGED <<size, opt, chan, net, hist>>

\* run, lines 565-566
UpdateCells(r) ==
    /\ rk[r].pc = "update_cells"
    /\ rk' = [rk EXCEPT
                ![r].qk = update_cells(rk[r].q, rk[r].qt, rk[r].dt, alpha[rk[r].stage]),
                ![r].cf = IF size > 1 THEN "qk" ELSE @,
                ![r].pc = IF size > 1 THEN "comm_send" ELSE "stage_end"]
    /\ UNCHANGED <<size, opt, chan, net, hist>>

\* run, lines 563 and 568-570: the next stage, or q = qk after the last
StageEnd(r) ==
    /\ rk[r].pc = "stage_end"
    /\ IF rk[r].stage < Len(alpha)
         THEN rk' = [rk EXCEPT ![r].stage = @ + 1, ![r].pc = "calc_gradients"]
         ELSE rk' = [rk EXCEPT ![r].q = rk[r].qk, ![r].pc = "residuals"]
    /\ UNCHANGED <<size, opt, chan, net, hist>>

-----------------------------------------------------------------------------
(* Residual norms: doubles that may be NaN or infinite *)

NaN == -1
Inf == -2

\* a < b on doubles: false when either is NaN
FLt(a, b) ==
    /\ a # NaN /\ b # NaN
    /\ a # Inf
    /\ (b = Inf \/ a < b)

\* std::max(a, b): (a < b) ? b : a
FMax(a, b) == IF FLt(a, b) THEN b ELSE a

\* a / b for a, b >= 0
FDiv(a, b) ==
    IF b = 0 THEN (IF a = 0 THEN NaN ELSE Inf) ELSE Quot(a * QUnit, b)

-----------------------------------------------------------------------------
(* calc_residuals, lines 316-387, and the residual part of run, lines 572-593 *)

RECURSIVE LocalResidual(_, _, _, _, _)
\* lines 325-331: the loop over the cells i .. nRealCells-1, for variable j
LocalResidual(N, r, qt, i, j) ==
    IF i >= nRealCells(N, r) THEN 0
    ELSE (IF ~cellsIsGhost(N, r, i)
            THEN qt[vars * i + j] * qt[vars * i + j] * cellsAreas(i) ELSE 0)
         + LocalResidual(N, r, qt, i + 1, j)

\* lines 360-362
SqrtAll(R) == [j \in Vars |-> Isqrt(R[j])]

\* the sum of lines 354-356 left out
AddOtherDropped(R, R_other) == R

\* lines 354-356
AddOther(R, R_other) == [j \in Vars |-> R[j] + R_other[j]]

\* run, lines 573 and 576: whether this step calls calc_residuals, and on what
CallsResiduals(r) ==
    \/ rk[r].step = 0
    \/ rk[r].step % opt.print_interval = 0
    \/ opt.tolerance > TolDefault

ResTarget(r) == IF rk[r].step = 0 THEN "R0" ELSE "R"

\* lines 322-341 and, on a rank other than 0, 360-362
ResLocal(r) ==
    /\ rk[r].pc = "residuals"
    /\ IF ~CallsResiduals(r)
         THEN /\ rk' = [rk EXCEPT ![r].pc = "advance"]
              /\ net' = net
         ELSE LET part == [j \in Vars |-> LocalResidual(size, r, rk[r].qt, 0, j)]
              IN IF r # 0
                   THEN /\ net' = Send(net, r, 0,
                                       Msg("res_up", ResTarget(r), part, FALSE, 0)
                                          @@ [call |-> 0])
                        /\ rk' = [rk EXCEPT ![r][ResTarget(r)] = SqrtAll(part),
                                            ![r].pc = "res_recv"]
                   ELSE /\ net' = net
                        /\ rk' = [rk EXCEPT
                                    ![r][ResTarget(r)] =
                                        IF size > 1 THEN part ELSE SqrtAll(part),
                                    ![r].gi = 1,
                                    ![r].pc = IF size > 1 THEN "res_gather"
                                                          ELSE "advance"]
    /\ UNCHANGED <<size, opt, chan, hist>>

\* lines 343-362: rank 0 receives R_other from rank gi and adds it; after the
\* last, the square roots
ResGather(r) ==
    /\ rk[r].pc = "res_gather" /\ r = 0
    /\ LET i == rk[r].gi IN
       /\ net[<<i, 0>>] # << >>
       /\ LET R_other == Delivered(i, Head(net[<<i, 0>>]))
              sum == AddOther(rk[r][ResTarget(r)], R_other)
          IN /\ net' = [net EXCEPT ![<<i, 0>>] = Tail(@)]
             /\ rk' = [rk EXCEPT
                         ![r][ResTarget(r)] = IF i = size - 1 THEN SqrtAll(sum) ELSE sum,
                         ![r].gi = i + 1,
                         ![r].pc = IF i = size - 1 THEN "res_bcast" ELSE "res_gather"]
    /\ UNCHANGED <<size, opt, chan, hist>>

\* lines 364-374: rank 0 sends R to every other rank
ResBcast(r) ==
    /\ rk[r].pc = "res_bcast" /\ r = 0
    /\ net' = Bcast(net, 1,
                    Msg("res_down", ResTarget(r), rk[r][ResTarget(r)], FALSE, 0)
                       @@ [call |-> 0])
    /\ rk' = [rk EXCEPT ![r].pc = "advance"]
    /\ UNCHANGED <<size, opt, chan, hist>>

\* the receive of lines 375-385 with the received values dropped
ResRecvKeepsOwn(r) ==
    /\ rk[r].pc = "res_recv" /\ r # 0
    /\ net[<<0, r>>] # << >>
    /\ rk' = [rk EXCEPT ![r].pc = "advance"]
    /\ net' = [net EXCEPT ![<<0, r>>] = Tail(@)]
    /\ UNCHANGED <<size, opt, chan, hist>>

\* lines 375-385: the other ranks receive R
ResRecv(r) ==
    /\ rk[r].pc = "res_recv" /\ r # 0
    /\ net[<<0, r>>] # << >>
    /\ rk' = [rk EXCEPT ![r][ResTarget(r)] = Delivered(0, Head(net[<<0, r>>])),
                        ![r].pc = "advance"]
    /\ net' = [net EXCEPT ![<<0, r>>] = Tail(@)]
    /\ UNCHANGED <<size, opt, chan, hist>>

\* lines 575 and 579: R after the step's calc_residuals
Normalised(r) ==
    IF rk[r].step = 0 THEN rk[r].R0
    ELSE [i \in Vars |-> FDiv(rk[r].R[i], rk[r].R0[i])]

\* run, lines 573-593 after calc_residuals: R, then step and time
Advance(r) ==
    /\ rk[r].pc = "advance"
    /\ rk' = [rk EXCEPT
                ![r].R = IF CallsResiduals(r) THEN Normalised(r) ELSE @,
                ![r].step = @ + 1,
                ![r].time = IF opt.global_dt THEN @ + rk[r].dt[0] ELSE @,
                ![r].pc = "check"]
    /\ hist' = IF CallsResiduals(r)
                 THEN [hist EXCEPT ![r].res = rk[r][ResTarget(r)],
                                   ![r].res_step = rk[r].step]
                 ELSE hist
    /\ UNCHANGED <<size, opt, chan, net>>

-----------------------------------------------------------------------------
(* The loop of run, lines 534-545 *)

RECURSIVE RmaxFrom(_, _, _)
\* line 539: the loop over i .. vars-1 with Rmax = acc
RmaxFrom(R, i, acc) ==
    IF i >= vars THEN acc ELSE RmaxFrom(R, i + 1, FMax(R[i], acc))

\* lines 537-540
Rmax(r) == IF rk[r].step > 0 THEN RmaxFrom(rk[r].R, 0, 0) ELSE QUnit

\* line 542
Stops(r) ==
    \/ rk[r].step >= opt.max_step
    \/ rk[r].time >= opt.max_time
    \/ FLt(Rmax(r), opt.tolerance)

Check(r) ==
    /\ rk[r].pc = "check"
    /\ rk' = [rk EXCEPT ![r].pc = IF Stops(r) THEN "done" ELSE "update_bounds"]
    /\ UNCHANGED <<size, opt, chan, net, hist>>

-----------------------------------------------------------------------------
(* run on every rank *)

RunStart(N, r, ik) ==
    [RankStart EXCEPT !.pc = "check",
                      !.q = generate_initial_solution(N, r, ik),
                      !.R = [i \in Vars |-> QUnit]]

\* the initial states of a run: the discontinuity after the first cell, each
\* variable of the left state 0 or MaxQ
RunKernels == {ik \in InitKernels(1) : \A k \in Vars : ik.left[k] \in {0, MaxQ}}

\* the tolerances of a run: the default, one third and one half
Tolerances == {TolDefault, QUnit \div 3, QUnit \div 2}

InitRun ==
    \E N \in 1 .. RunRanks : \E ik \in RunKernels, tol \in Tolerances :
        /\ size = N
        /\ opt = [OptStart EXCEPT !.mpi = "eager", !.tolerance = tol]
        /\ rk = [r \in 0 .. N - 1 |-> RunStart(N, r, ik)]
        /\ chan = [r \in 0 .. N - 1 |-> ChanStart(N, r)]
        /\ net = NoNet(N)
        /\ hist = [r \in 0 .. N - 1 |-> HistStart(N, r)]

NextRun ==
    \/ \E r \in Ranks : Check(r)
    \/ \E r \in Ranks : UpdateBounds(r)
    \/ \E r \in Ranks : CalcDt(r)
    \/ \E r \in Ranks : CommSend(r)
    \/ \E r \in Ranks : CommRecv(r)
    \/ \E r \in Ranks : CommFree(r)
    \/ \E r \in Ranks : MinDt(r)
    \/ \E r \in Ranks : VdtSend(r)
    \/ \E r \in Ranks : VdtGather(r)
    \/ \E r \in Ranks : VdtBcast(r)
    \/ \E r \in Ranks : VdtRecv(r)
    \/ \E r \in Ranks : Save(r)
    \/ \E r \in Ranks : CalcGradients(r)
    \/ \E r \in Ranks : CalcLimiters(r)
    \/ \E r \in Ranks : CalcQt(r)
    \/ \E r \in Ranks : UpdateCells(r)
    \/ \E r \in Ranks : StageEnd(r)
    \/ \E r \in Ranks : ResLocal(r)
    \/ \E r \in Ranks : ResGather(r)
    \/ \E r \in Ranks : ResBcast(r)
    \/ \E r \in Ranks : ResRecv(r)
    \/ \E r \in Ranks : Advance(r)

SpecRun == InitRun /\ [][NextRun]_vars_all

-----------------------------------------------------------------------------
(* Residual reduction *)

\* the cells of rank s that enter the residual: c < nRealCells and not flagged ghost
ResidualCells(s) == {c \in Cells : c < nRealCells(size, s) /\ ~cellsIsGhost(size, s, c)}

RECURSIVE SumSquares(_, _, _)
\* the sum over the cells of C of qt[c,k]^2 * A[c], on rank s
SumSquares(s, C, k) ==
    IF C = {} THEN 0
    ELSE LET c == CHOOSE x \in C : TRUE
         IN rk[s].qt[vars * c + k] * rk[s].qt[vars * c + k] * cellsAreas(c)
            + SumSquares(s, C \ {c}, k)

RECURSIVE SumRanks(_, _)
\* the sum over the ranks of S of their cells' squares
SumRanks(S, k) ==
    IF S = {} THEN 0
    ELSE LET s == CHOOSE x \in S : TRUE
         IN SumSquares(s, ResidualCells(s), k) + SumRanks(S \ {s}, k)

\* calc_residuals has returned on rank r and run has not used the result yet
ResidualsReturned(r) == rk[r].pc = "advance" /\ CallsResiduals(r)

\* x is the square root of n, rounded down to the model's resolution
IsRoot(x, n) == x >= 0 /\ x * x <= n /\ n < (x + 1) * (x + 1)

\* C5: after calc_residuals returns, the residual of variable k on every rank,
\* root or not, is the square root of the sum over all ranks and all their
\* non-ghost cells c < nRealCells of qt[c,k]^2 * A[c].
C5_ResidualReduction ==
    \A r \in Ranks : ResidualsReturned(r) =>
        \A k \in Vars : IsRoot(rk[r][ResTarget(r)][k], SumRanks(Ranks, k))

\* two ranks with non-zero partial sums, and the root of the total differs on
\* a rank other than 0 from its own partial and from the root of its partial
C5_Witness ==
    /\ size >= 2
    /\ \E r \in Ranks \ {0} : \E k \in Vars :
          LET own == SumSquares(r, ResidualCells(r), k)
              res == rk[r][ResTarget(r)][k]
          IN /\ ResidualsReturned(r)
             /\ own > 0 /\ SumSquares(0, ResidualCells(0), k) > 0
             /\ res # own /\ ~IsRoot(res, own)
             /\ IsRoot(res, SumRanks(Ranks, k))

-----------------------------------------------------------------------------
(* The termination test *)

\* the residual of the most recently completed step over the initial residual
LastRatio(r, k) == FDiv(hist[r].res[k], rk[r].R0[k])

\* the maximum over k of the normalised residual is below the tolerance
RatioBelowTolerance(r) == \A k \in Vars : FLt(LastRatio(r, k), opt.tolerance)

\* C6: at every loop-top check after step 0 the loop stops exactly when
\* step >= max_step, or time >= max_time, or the maximum over k of R[k]/R0[k]
\* is below tolerance, R being the residual of the most recently completed
\* step: not the un-normalised R0 and not a value of an earlier step.
\* Stated for the runs whose initial residual is non-zero in every variable,
\* where every ratio is a number.
C6_TerminationTest ==
    \A r \in Ranks :
      (rk[r].pc = "check" /\ rk[r].step >= 1 /\ \A k \in Vars : rk[r].R0[k] > 0) =>
        /\ hist[r].res_step = rk[r].step - 1
        /\ Stops(r) <=> \/ rk[r].step >= opt.max_step
                        \/ rk[r].time >= opt.max_time
                        \/ RatioBelowTolerance(r)

-----------------------------------------------------------------------------
(* NaN residuals *)

\* C10: if any component of R is NaN at a loop-top check, whatever its
\* position, the tolerance test is not satisfied, and the loop stops only at
\* the step bound or the time bound.
C10_NaNNeverConverges ==
    \A r \in Ranks :
      (rk[r].pc = "check" /\ rk[r].step > 0 /\ \E k \in Vars : rk[r].R[k] = NaN) =>
        /\ ~FLt(Rmax(r), opt.tolerance)
        /\ Stops(r) => (rk[r].step >= opt.max_step \/ rk[r].time >= opt.max_time)

-----------------------------------------------------------------------------
(* Ghost cells in the stage loop *)

\* the boundary ghost cells and the halo cells of rank r
BoundaryGhost(r, c) == c >= nRealCells(size, r)
HaloGhost(r, c) == cellsIsGhost(size, r, c)
IsGhost(r, c) == BoundaryGhost(r, c) \/ HaloGhost(r, c)

\* this step is update_cells of rank r
UpdateCellsStep(r) == rk[r].pc = "update_cells" /\ rk'[r].pc # "update_cells"

\* C8: update_cells never changes the value of a ghost-cell entry of the stage
\* state, in single-rank and in multi-rank runs, at every stage of every step.
C8_GhostsUntouched ==
    [][\A r \in Ranks : UpdateCellsStep(r) =>
          \A x \in FIdx : IsGhost(r, CellOf(x)) => rk'[r].qk[x] = rk[r].qk[x]]_vars_all

\* C8 as amended: update_cells writes every entry; a ghost-cell entry of the
\* stage state gets the value of the same entry of the step-start state q,
\* which leaves a boundary ghost entry unchanged and resets a halo entry.
C8_GhostsReset ==
    [][\A r \in Ranks : UpdateCellsStep(r) =>
          \A x \in FIdx :
             /\ IsGhost(r, CellOf(x)) => rk'[r].qk[x] = rk[r].q[x]
             /\ BoundaryGhost(r, CellOf(x)) => rk'[r].qk[x] = rk[r].qk[x]]_vars_all

\* update_cells of a stage after the first has run on a rank with a halo cell,
\* and put the step-start value where the last exchange had put another
C8_Witness ==
    \E r \in Ranks : \E c \in DOMAIN Comms(size, r) : \E k \in Vars :
        LET x == vars * Comms(size, r)[c].rec_indices[1] + k IN
        /\ rk[r].pc = "comm_send" /\ rk[r].cf = "qk" /\ rk[r].stage >= 2
        /\ rk[r].qk[x] = rk[r].q[x]
        /\ chan[r][c].rec_q[k] # rk[r].qk[x]

-----------------------------------------------------------------------------
(* Boundary values at the flux evaluation *)

\* the boundary ghost entries of f are what the kernel gives on the owned cells of g
BoundsOf(r, f, g) ==
    \A i \in DOMAIN boundaryEdges(size, r) : \A k \in Vars :
        LET ed == Edge(size, r, boundaryEdges(size, r)[i])
        IN f[vars * ed.j + k] = boundaryFunc(g, ed.i, k)

\* C9: at every flux evaluation the boundary applicator has run on the state
\* passed to it after the latest stage update: the boundary ghost values are
\* those of the current owned values, not older ones.
C9_BoundsFresh ==
    \A r \in Ranks : rk[r].pc = "calc_qt" => BoundsOf(r, rk[r].qk, rk[r].qk)

\* C9 as amended: the boundary applicator runs once per step, on q before the
\* first stage; at the flux evaluation of every stage the boundary ghost values
\* are those it computed from the step-start state.
C9_BoundsOfStepStart ==
    \A r \in Ranks : rk[r].pc = "calc_qt" => BoundsOf(r, rk[r].qk, rk[r].q)

\* a flux evaluation of a later stage whose boundary ghost values are older
\* than the owned values next to them
C9_Witness ==
    \E r \in Ranks :
        /\ rk[r].pc = "calc_qt" /\ rk[r].stage >= 2
        /\ boundaryEdges(size, r) # << >>
        /\ BoundsOf(r, rk[r].qk, rk[r].q)
        /\ ~BoundsOf(r, rk[r].qk, rk[r].qk)

-----------------------------------------------------------------------------
(* The same problem on one rank: the chain of 2*size owned cells with a     *)
(* boundary ghost at each end, run by the same operations.  A field of the  *)
(* one-rank run is a function of <<position, variable>>.                    *)

OnePos == -1 .. 2 * size
OneOwned == 0 .. 2 * size - 1

\* cellsAreas and edgesLengths of the one-rank mesh: the cells and edges of the
\* partitioned meshes; the edge right of position p
OneArea(p) == IF p \in OneOwned /\ p % 2 = 1 THEN 2 ELSE 1
OneEdgeLen(p) == IF p \in OneOwned /\ p # 2 * size - 1 /\ p % 2 = 1 THEN 2 ELSE 1

\* update_bounds: each boundary ghost takes the state of the owned cell next to it
OneBounds(G) ==
    [x \in OnePos \X Vars |->
        IF x[1] = -1 THEN G[<<0, x[2]>>]
        ELSE IF x[1] = 2 * size THEN G[<<2 * size - 1, x[2]>>]
        ELSE G[x]]

\* calc_dt and min_dt: the minimum over every cell of the mesh
OneDt ==
    LET d(p) == DtRule(size, p, OneArea(p))
    IN CHOOSE v \in {d(p) : p \in OnePos} : \A p \in OnePos : v <= d(p)

\* calc_flux on the edge right of position p, and calc_time_derivatives
OneFlux(qk, p, k) == Quot(qk[<<p, k>>] - qk[<<p + 1, k>>], 2)
OneQt(qk) ==
    [x \in OnePos \X Vars |->
        IF x[1] \notin OneOwned THEN 0
        ELSE Quot(OneFlux(qk, x[1] - 1, x[2]) * OneEdgeLen(x[1] - 1)
                    - OneFlux(qk, x[1], x[2]) * OneEdgeLen(x[1]), OneArea(x[1]))]

\* update_cells
OneUpdate(G, qt, a) ==
    [x \in OnePos \X Vars |-> G[x] + Quot(qt[x] * OneDt * a, AlphaDen)]

RECURSIVE OneStages(_, _, _)
\* the stage loop from stage s on, qk the stage state
OneStages(G, qk, s) ==
    IF s > Len(alpha) THEN qk
    ELSE OneStages(G, OneUpdate(G, OneQt(qk), alpha[s]), s + 1)

\* one step of run
OneStep(G) == LET B == OneBounds(G) IN OneStages(B, B, 1)

RECURSIVE OneRun(_, _)
\* q after n steps
OneRun(G, n) == IF n = 0 THEN G ELSE OneStep(OneRun(G, n - 1))

\* where the partition keeps the cell of position p: rank and cell
RankOf(p) == IF p < 0 THEN 0 ELSE IF p >= 2 * size THEN size - 1 ELSE p \div 2
LocalOf(p) ==
    IF p < 0 THEN LeftCell(size, 0)
    ELSE IF p >= 2 * size THEN RightCell(size, size - 1) ELSE p % 2

\* the initial state of the problem, from the ranks' initial states
OneStart == [x \in OnePos \X Vars |-> hist[RankOf(x[1])].q0[vars * LocalOf(x[1]) + x[2]]]

\* the runs that compare a partition with one rank
InitEq ==
    \E N \in {2, 4} : \E ik \in {x \in RunKernels : x.left[0] # 0},
                         d1 \in 1 .. MaxDt, d2 \in {1} :
        /\ size = N
        /\ opt = [OptStart EXCEPT !.mpi = "eager", !.dt_rule = "place",
                                  !.dt1 = d1, !.dt2 = d2, !.max_step = EqSteps]
        /\ rk = [r \in 0 .. N - 1 |-> RunStart(N, r, ik)]
        /\ chan = [r \in 0 .. N - 1 |-> ChanStart(N, r)]
        /\ net = NoNet(N)
        /\ hist = [r \in 0 .. N - 1 |->
                     [HistStart(N, r) EXCEPT !.q0 = generate_initial_solution(N, r, ik)]]

SpecEq == InitEq /\ [][NextRun]_vars_all

\* C11: with global_dt on, after every step the partitioned run holds on every
\* owned non-ghost cell the value of q that the one-rank run of the same
\* problem holds, with the same step count and simulated time.
C11_DecompositionEquivalence ==
    \A r \in Ranks : rk[r].pc = "check" =>
        /\ rk[r].time = rk[r].step * OneDt
        /\ \A c \in {0, 1} : \A k \in Vars :
              rk[r].q[vars * c + k] = OneRun(OneStart, rk[r].step)[<<2 * r + c, k>>]

-----------------------------------------------------------------------------
(* Conservation on a closed domain *)

\* runs on a closed domain: no flux through a boundary edge, and between two
\* cells a flux that both sides compute alike
InitCons ==
    \E N \in 1 .. RunRanks : \E ik \in RunKernels, d1 \in 1 .. MaxDt, d2 \in 1 .. MaxDt,
                                rule \in {"area", "place"} :
        /\ size = N
        /\ opt = [OptStart EXCEPT !.mpi = "eager", !.flux = "closed",
                                  !.dt_rule = rule, !.dt1 = d1, !.dt2 = d2]
        /\ rk = [r \in 0 .. N - 1 |-> RunStart(N, r, ik)]
        /\ chan = [r \in 0 .. N - 1 |-> ChanStart(N, r)]
        /\ net = NoNet(N)
        /\ hist = [r \in 0 .. N - 1 |->
                     [HistStart(N, r) EXCEPT !.q0 = generate_initial_solution(N, r, ik)]]

SpecCons == InitCons /\ [][NextRun]_vars_all

RECURSIVE TotalOver(_, _, _)
\* the sum over the ranks of S of A[c] * f(s)[c,k] over the owned cells of s
TotalOver(f(_), S, k) ==
    IF S = {} THEN 0
    ELSE LET s == CHOOSE x \in S : TRUE
         IN cellsAreas(0) * f(s)[k] + cellsAreas(1) * f(s)[vars + k]
            + TotalOver(f, S \ {s}, k)

QNow(s) == rk[s].q
QStart(s) == hist[s].q0

\* every rank stands at the loop-top check after the same n steps
AllAfterStep(n) == \A r \in Ranks : rk[r].pc = "check" /\ rk[r].step = n

\* what the division by the cell area can lose in one step: less than one
\* unit of A*qt per owned cell of area 2, times the time step
RoundOff == size * rk[0].time

\* C12: on a closed domain with a conservative flux kernel and global_dt on,
\* the total over the owned non-ghost cells of all ranks of A[c] * q[c,k] is
\* after every full step what it was before, up to the rounding of the
\* arithmetic.
C12_Conservation ==
    \A n \in 1 .. MaxStep : AllAfterStep(n) =>
        \A k \in Vars :
           LET d == TotalOver(QNow, Ranks, k) - TotalOver(QStart, Ranks, k)
           IN d <= RoundOff /\ -d <= RoundOff

-----------------------------------------------------------------------------
(* calc_limiters alone, on one rank, for any state and any gradients *)

\* the values of a cell: 0 and multiples of 5/8 from 5/4 on, which differ by
\* amounts that reach each branch of sigma
LimValues == {((5 * QUnit) \div 8) * l : l \in (0 .. LimLevels) \ {1}}

\* a state: variable 0 takes any value in each cell, variable 1 the same values
\* in the opposite order of the cells
LimStates ==
    {[x \in FIdx |-> IF x % vars = 0 THEN v[CellOf(x)] ELSE v[Ncells - 1 - CellOf(x)]] :
        v \in [Cells -> LimValues]}

\* the gradients: gx and gy the same in every cell
LimGradients == {<<0, 0>>, <<QUnit, 0>>, <<-QUnit, QUnit>>}

\* <<size, rank>>: one rank for each kind of neighbourhood in the chain
LimRanks == {<<1, 0>>, <<2, 0>>, <<2, 1>>, <<3, 1>>}

InitLim ==
    \E nr \in LimRanks : \E st \in LimStates, g \in LimGradients,
                             lf \in {"zero", "michalak"} :
      LET N == nr[1]  a == nr[2]  cx == g[1]  cy == g[2] IN
        /\ size = N
        /\ opt = [OptStart EXCEPT !.mpi = "eager", !.do_calc_gradients = TRUE,
                                  !.do_calc_limiters = TRUE, !.limiter = lf]
        /\ rk = [r \in 0 .. N - 1 |->
                   [RankStart EXCEPT !.pc = IF r = a THEN "calc_limiters" ELSE "idle",
                                     !.stage = 1, !.q = st, !.qk = st,
                                     !.gx = [x \in FIdx |-> cx],
                                     !.gy = [x \in FIdx |-> cy]]]
        /\ chan = [r \in 0 .. N - 1 |-> ChanStart(N, r)]
        /\ net = NoNet(N)
        /\ hist = [r \in 0 .. N - 1 |-> HistStart(N, r)]

NextLim == \E r \in Ranks : CalcLimiters(r)

SpecLim == InitLim /\ [][NextLim]_vars_all

\* calc_limiters has run on rank r
LimitersDone(r) == rk[r].pc \in {"comm_send", "calc_qt"}

\* the blend weight of cell c and variable k, from the qmin and qmax of the call
SigmaOf(r, c, k) ==
    Sigma(cellsAreas(c), rk[r].qmax[vars * c + k] - rk[r].qk[vars * c + k],
                         rk[r].qmin[vars * c + k] - rk[r].qk[vars * c + k])

-----------------------------------------------------------------------------
(* Runs with each setting of the two flags *)

InitFlags ==
    \E N \in 1 .. RunRanks : \E ik \in RunKernels, dg \in BOOLEAN, dl \in BOOLEAN :
        /\ size = N
        /\ opt = [OptStart EXCEPT !.mpi = "eager", !.do_calc_gradients = dg,
                                  !.do_calc_limiters = dl, !.limiter = "michalak",
                                  !.max_step = EqSteps]
        /\ rk = [r \in 0 .. N - 1 |-> RunStart(N, r, ik)]
        /\ chan = [r \in 0 .. N - 1 |-> ChanStart(N, r)]
        /\ net = NoNet(N)
        /\ hist = [r \in 0 .. N - 1 |-> HistStart(N, r)]

SpecFlags == InitFlags /\ [][NextRun]_vars_all

\* the fields of a skipped phase
SkippedFields ==
    (IF opt.do_calc_gradients THEN {} ELSE {"gx", "gy"}) \cup
    (IF opt.do_calc_limiters THEN {} ELSE {"limiters"})

\* C14: when do_calc_gradients is off, gx and gy are all zero at every flux
\* evaluation, and when do_calc_limiters is off the limiter field is; a
\* skipped field is never exchanged and never written.
C14_SkippedPhasesZero ==
    /\ \A r \in Ranks :
          /\ \A f \in SkippedFields : rk[r][f] = Zeros
          /\ rk[r].pc \in {"comm_send", "comm_recv", "comm_free"} =>
                rk[r].cf \notin SkippedFields
    /\ \A p \in DOMAIN net : \A x \in DOMAIN net[p] :
          net[p][x].op = "halo" => net[p][x].fld \notin SkippedFields

\* a flux evaluation of a later stage with the limiters skipped and zero while
\* the gradients are computed and not zero
C14_Witness ==
    \E r \in Ranks :
        /\ rk[r].pc = "calc_qt" /\ rk[r].stage >= 2
        /\ opt.do_calc_gradients /\ ~opt.do_calc_limiters
        /\ rk[r].gx # Zeros /\ rk[r].limiters = Zeros

-----------------------------------------------------------------------------
(* calc_gradients on any state, on meshes with and without an edge whose two *)
(* cells are equal                                                           *)

\* the edges with i = j a mesh may hold: none, or one on an owned cell
SelfEdges ==
    {<< >>} \cup {<< [i |-> c, j |-> c, nx |-> 1, ny |-> 1, le |-> 1] >> : c \in {0, 1}}

InitGrad ==
    \E nr \in LimRanks : \E st \in LimStates, se \in SelfEdges :
      LET N == nr[1]  a == nr[2] IN
        /\ size = N
        /\ opt = [OptStart EXCEPT !.mpi = "eager", !.do_calc_gradients = TRUE]
        /\ rk = [r \in 0 .. N - 1 |->
                   [RankStart EXCEPT !.pc = IF r = a THEN "calc_gradients" ELSE "idle",
                                     !.stage = 1, !.q = st, !.qk = st]]
        /\ chan = [r \in 0 .. N - 1 |-> ChanStart(N, r)]
        /\ net = NoNet(N)
        /\ hist = [r \in 0 .. N - 1 |-> [HistStart(N, r) EXCEPT !.self = se]]

NextGrad == \E r \in Ranks : CalcGradients(r)

SpecGrad == InitGrad /\ [][NextGrad]_vars_all

\* calc_gradients has run on rank r
GradientsDone(r) == rk[r].pc \in {"comm_send", "calc_limiters"}

\* what edge e of rank r adds to cell c, variable k, along the normal component n
EdgeTerm(r, e, c, k, n) ==
    LET ed == Edge(size, r, e)
        f == Quot((rk[r].qk[vars * ed.i + k] + rk[r].qk[vars * ed.j + k]) * ed.le, 2)
    IN IF ed.i = c THEN f * ed[n] ELSE IF ed.j = c THEN -(f * ed[n]) ELSE 0

\* the Green-Gauss sum of cell c over the edges with two different cells
GreenGauss(r, c, k, n) ==
    Quot(EdgeTerm(r, 0, c, k, n) + EdgeTerm(r, 1, c, k, n) + EdgeTerm(r, 2, c, k, n),
         cellsAreas(c))

\* C15 as the specification states it: after calc_gradients gx and gy are zero
\* on every cell at or above nRealCells and on every cell flagged is_ghost, and
\* an edge with two equal cells contributes nothing.
C15_GhostGradientsZero ==
    \A r \in Ranks : GradientsDone(r) =>
        /\ \A x \in FIdx : IsGhost(r, CellOf(x)) =>
              rk[r].gx[x] = 0 /\ rk[r].gy[x] = 0
        /\ rk[r].gx = calc_gradients(size, r, rk[r].qk).x
        /\ rk[r].gy = calc_gradients(size, r, rk[r].qk).y

\* C15, amended: after calc_gradients gx and gy are zero on every cell at or
\* above nRealCells; every cell below nRealCells, a flagged one included, holds
\* the Green-Gauss sum over its edges divided by its area; and an edge with two
\* equal cells contributes nothing.
C15_BoundaryGradientsZero ==
    \A r \in Ranks : GradientsDone(r) =>
        \A c \in Cells : \A k \in Vars :
            IF c >= nRealCells(size, r)
              THEN rk[r].gx[vars * c + k] = 0 /\ rk[r].gy[vars * c + k] = 0
              ELSE /\ rk[r].gx[vars * c + k] = GreenGauss(r, c, k, "nx")
                   /\ rk[r].gy[vars * c + k] = GreenGauss(r, c, k, "ny")

\* a mesh with an edge of two equal cells, a flagged cell with a gradient that
\* is not zero, and a boundary ghost whose edge carries a value that is not zero
C15_Witness ==
    \E r \in Ranks : \E c, b \in Cells :
        /\ GradientsDone(r) /\ hist[r].self # << >>
        /\ cellsIsGhost(size, r, c) /\ rk[r].gy[vars * c] # 0
        /\ b >= nRealCells(size, r)
        /\ \E e \in EdgeIds : Edge(size, r, e).j = b /\ EdgeTerm(r, e, b, 0, "nx") # 0
        /\ rk[r].gx[vars * b] = 0

-----------------------------------------------------------------------------
(* Claims on the stages of one step *)

\* rank r is between the copy of q to qk (line 561) and the copy back (line 570)
InStages(r) ==
    \/ rk[r].pc \in {"calc_gradients", "calc_limiters", "calc_qt", "update_cells",
                     "stage_end"}
    \/ /\ rk[r].pc \in {"comm_send", "comm_recv", "comm_free"}
       /\ rk[r].cf \in {"gx", "gy", "limiters", "qk"}

\* this step is calc_time_derivatives of rank r
CalcQtStep(r) == rk[r].pc = "calc_qt" /\ rk'[r].pc = "update_cells"

\* this step is the end of the last stage of rank r
LastStageStep(r) ==
    rk[r].pc = "stage_end" /\ rk[r].stage = Len(alpha) /\ rk'[r].pc = "residuals"

\* C16: within one step q is not modified while the stages run; at each stage,
\* with the coefficients of alpha in order, qt is evaluated on the previous
\* stage state (q itself at the first stage) and the new stage state of every
\* owned non-ghost cell is q + qt*dt*alpha_s from the step-start q; after the
\* last stage q is the last stage state; dt is unchanged across the stages.
C16_LowStorageStages ==
    [][\A r \in Ranks :
          /\ InStages(r) =>
                /\ rk'[r].dt = rk[r].dt
                /\ rk'[r].q = IF LastStageStep(r) THEN rk[r].qk ELSE rk[r].q
                /\ rk'[r].stage = IF rk[r].pc = "stage_end" /\ rk'[r].pc = "calc_gradients"
                                    THEN rk[r].stage + 1 ELSE rk[r].stage
          /\ rk[r].pc = "save" /\ rk'[r].pc # "save" =>
                rk'[r].stage = 1 /\ rk'[r].qk = rk[r].q /\ InStages(r)'
          /\ CalcQtStep(r) =>
                /\ rk[r].stage = 1 => rk[r].qk = rk[r].q
                /\ hist'[r].flux \in FluxTables(size, r, rk[r].qk)
                /\ rk'[r].qt = calc_time_derivatives(size, r, hist'[r].flux)
          /\ UpdateCellsStep(r) =>
                \A x \in FIdx : IsOwned(size, r, CellOf(x)) =>
                   rk'[r].qk[x] =
                      rk[r].q[x] + Quot(rk[r].qt[x] * rk[r].dt[x] * alpha[rk[r].stage],
                                        AlphaDen)]_vars_all

\* update_cells about to run at a later stage, on an owned entry where the stage
\* state has left q and the increment is not zero
C16_Witness ==
    \E r \in Ranks : \E x \in FIdx :
        /\ rk[r].pc = "update_cells" /\ rk[r].stage >= 2
        /\ IsOwned(size, r, CellOf(x))
        /\ rk[r].qk[x] # rk[r].q[x]
        /\ Quot(rk[r].qt[x] * rk[r].dt[x] * alpha[rk[r].stage], AlphaDen) # 0

-----------------------------------------------------------------------------
(* Termination of run: every rank's process keeps running, so a step that is *)
(* possible is eventually taken                                              *)

\* the runs: variable 0 not zero in the first cell, the default tolerance or one
\* half, max_step one more than EqSteps
InitTerm ==
    \E N \in 1 .. RunRanks :
      \E ik \in {x \in RunKernels : x.left[0] # 0}, tol \in {TolDefault, QUnit \div 2} :
        /\ size = N
        /\ opt = [OptStart EXCEPT !.mpi = "eager", !.tolerance = tol,
                                  !.max_step = EqSteps + 1]
        /\ rk = [r \in 0 .. N - 1 |-> RunStart(N, r, ik)]
        /\ chan = [r \in 0 .. N - 1 |-> ChanStart(N, r)]
        /\ net = NoNet(N)
        /\ hist = [r \in 0 .. N - 1 |-> HistStart(N, r)]

SpecTermFair == InitTerm /\ [][NextRun]_vars_all /\ WF_vars_all(NextRun)

\* rank r is at the test of line 543, or has left the loop through it
AtLoopTop(r) == rk[r].pc \in {"check", "done"}

AllDone == \A r \in Ranks : rk[r].pc = "done"

\* C17: with a finite max_step and symmetric channels every rank eventually
\* leaves the step loop of run, and any two ranks at the loop-top test or past
\* it hold equal step, equal time and equal R, so that all leave at the same
\* step and none stays blocked in a receive.
C17_TerminationAgreement ==
    /\ [](\A r, s \in Ranks :
             AtLoopTop(r) /\ AtLoopTop(s) =>
                /\ rk[r].step = rk[s].step
                /\ rk[r].time = rk[s].time
                /\ rk[r].R = rk[s].R)
    /\ <>AllDone

\* two ranks that left the loop together on the residual test, before max_step
\* and max_time
C17_Witness ==
    /\ size >= 2 /\ AllDone
    /\ \A r \in Ranks : /\ rk[r].step >= 1 /\ rk[r].step < opt.max_step
                        /\ rk[r].time < opt.max_time
                        /\ rk[r].R # [i \in Vars |-> QUnit]

-----------------------------------------------------------------------------
(* Matching of messages: every send and receive has tag 0 on MPI_COMM_WORLD, *)
(* so a receive from rank s takes the oldest message of s that is not taken  *)

\* the blocking receive rank r is at: the rank it names as source, the operation
\* and the field of the message it is for
AwaitedBy(r) ==
    CASE rk[r].pc = "comm_recv" ->
             [src |-> Comms(size, r)[rk[r].ck].out_rank, op |-> "halo", fld |-> rk[r].cf]
      [] rk[r].pc = "validate_dt" /\ r = 0 ->
             [src |-> rk[r].gi, op |-> "dt_up", fld |-> "dt"]
      [] rk[r].pc = "vdt_recv" ->
             [src |-> 0, op |-> "dt_down", fld |-> "dt"]
      [] rk[r].pc = "res_gather" ->
             [src |-> rk[r].gi, op |-> "res_up", fld |-> ResTarget(r)]
      [] rk[r].pc = "res_recv" ->
             [src |-> 0, op |-> "res_down", fld |-> ResTarget(r)]
      [] OTHER -> [src |-> -1, op |-> "none", fld |-> "none"]

\* the message the receive of rank r takes, when there is one
Matched(r) == Head(net[<<AwaitedBy(r).src, r>>])

Receiving(r) ==
    /\ AwaitedBy(r).src \in Ranks
    /\ net[<<AwaitedBy(r).src, r>>] # << >>

\* C18: with tag 0 everywhere and in-order delivery per rank pair, every receive,
\* in any interleaving of the ranks, takes the message its peer sent in the same
\* operation for the same field, and a halo receive the message of the peer's
\* update_comms call of the same count as its own.
C18_NoCrossMatching ==
    \A r \in Ranks : Receiving(r) =>
        /\ Matched(r).op = AwaitedBy(r).op
        /\ Matched(r).fld = AwaitedBy(r).fld
        /\ AwaitedBy(r).op = "halo" =>
              /\ Matched(r).call = hist[r].ncall
              /\ Comms(size, AwaitedBy(r).src)[Matched(r).ch].out_rank = r

\* a neighbour of rank 0 about to receive the broadcast of dt while a halo
\* message of rank 0 waits behind it, in a step after the first
C18_Witness ==
    \E r \in Ranks \ {0} :
        /\ rk[r].pc = "vdt_recv" /\ rk[r].step >= 1
        /\ Len(net[<<0, r>>]) >= 2
        /\ net[<<0, r>>][1].op = "dt_down"
        /\ net[<<0, r>>][2].op = "halo"
        /\ \E c \in DOMAIN Comms(size, r) : Comms(size, r)[c].out_rank = 0

=============================================================================
